---- MODULE Spec2Model ----
(***************************************************************************)
(* Model of the category resolver, the rule store and the ledger request   *)
(* handlers of server.js.  Node runs one handler segment at a time: an     *)
(* action is the code a handler runs between two awaits of real I/O.       *)
(* Strings are sequences of one-character strings; confidences are in      *)
(* hundredths (95 is 0.95); Undefined stands for a missing number.         *)
(***************************************************************************)
EXTENDS Integers, Sequences, FiniteSets, TLC

VARIABLES
    now,            \* Date.now()
    learnedRules,   \* let learnedRules
    lastSave,       \* what the last writeFileSync of saveRules did
    tokens,         \* tokens.access_token is set
    anthropic,      \* the Anthropic client exists
    categoryCache,  \* let categoryCache
    req,            \* the ledger/resolver request in flight and where it waits
    res,            \* the last response sent, with what the handler did for it
    supabase,       \* the Supabase client exists
    plaidAccounts,  \* let plaidAccounts
    plaidStore,     \* the plaid_connections rows and plaid_tokens.json
    plaidReqs,      \* the bank-feed requests in flight and where they wait
    plaidRes,       \* the last bank-feed response, with what the handler did for it
    cursorStored,   \* per connection, the latest cursor a sync has stored
    aggregation     \* the records fetchFinancialData holds and its transactions

ledgerVars == <<now, learnedRules, lastSave, tokens, anthropic, categoryCache, req, res>>

plaidVars == <<supabase, plaidAccounts, plaidStore, plaidReqs, plaidRes, cursorStored>>

vars == <<ledgerVars, plaidVars, aggregation>>

\* ---------------------------------------------------------------- bounds
MaxNow == 1
MaxRules == 2
MaxTimesUsed == 2

\* ---------------------------------------------------------------- values
Undefined == -1

\* no response sent yet
NoResponse ==
    [route |-> "none", body |-> [status |-> 0, error |-> ""],
     txns |-> <<>>, trace |-> <<>>, tokenMissing |-> FALSE]

\* no request in flight
Idle == [route |-> "none", pc |-> "idle"]

\* let categoryCache = { categories: [], lastFetched: null }
EmptyCache == [categories |-> 0, lastFetched |-> Undefined]

\* String.prototype.toLowerCase on the characters used here
LowerChar(c) ==
    CASE c = "A" -> "a"
      [] c = "B" -> "b"
      [] c = "P" -> "p"
      [] c = "W" -> "w"
      [] OTHER -> c

toLowerCase(s) == [i \in 1..Len(s) |-> LowerChar(s[i])]

\* String.prototype.startsWith
startsWith(s, p) ==
    /\ Len(p) <= Len(s)
    /\ SubSeq(s, 1, Len(p)) = p

\* String.prototype.includes
includes(s, p) ==
    \E k \in 0..(Len(s) - Len(p)) : SubSeq(s, k + 1, k + Len(p)) = p

\* request bodies the model feeds to learn-rule
Patterns == { <<"a">>, <<"A">> }
PatternTypes == { "exact", "starts_with", "contains", "absent" }
Categories == { [id |-> 1, name |-> "n1"], [id |-> 2, name |-> "n2"] }

\* ------------------------------------------------------------ rule store
\* saveRules: writeFileSync inside try/catch; the error is logged and the
\* function returns normally either way.  Result: what the disk write did.
saveRules(writeOk) == IF writeOk THEN "written" ELSE "failed"

\* destructuring default of learn-rule: patternType = 'contains'
DefaultPatternType(t) == IF t = "absent" THEN "contains" ELSE t

\* learnedRules.findIndex(r => r.pattern.toLowerCase() === pattern.toLowerCase()
\*                             && r.patternType === patternType); 0 for -1
RECURSIVE FindIndexFrom(_, _, _, _)
FindIndexFrom(rules, i, pattern, patternType) ==
    IF i > Len(rules) THEN 0
    ELSE IF /\ toLowerCase(rules[i].pattern) = toLowerCase(pattern)
            /\ rules[i].patternType = patternType
         THEN i
         ELSE FindIndexFrom(rules, i + 1, pattern, patternType)

\* a findIndex that compares the stored pattern without lower-casing it
RECURSIVE FindIndexCaseSensitive(_, _, _, _)
FindIndexCaseSensitive(rules, i, pattern, patternType) ==
    IF i > Len(rules) THEN 0
    ELSE IF rules[i].pattern = pattern /\ rules[i].patternType = patternType
         THEN i
         ELSE FindIndexCaseSensitive(rules, i + 1, pattern, patternType)

findIndexExactCase(rules, pattern, patternType) ==
    FindIndexCaseSensitive(rules, 1, pattern, patternType)

findIndex(rules, pattern, patternType) == FindIndexFrom(rules, 1, pattern, patternType)

\* (timesUsed || 1) + 1
BumpTimesUsed(t) == (IF t = Undefined \/ t = 0 THEN 1 ELSE t) + 1

\* an update that forgets to overwrite categoryName
UpdateRuleKeepName(r, categoryId, categoryName, t) ==
    [r EXCEPT !.categoryId = categoryId,
              !.timesUsed = BumpTimesUsed(r.timesUsed),
              !.updatedAt = t]

\* the existing-rule branch of learn-rule
UpdateRule(r, categoryId, categoryName, t) ==
    [r EXCEPT !.categoryId = categoryId,
              !.categoryName = categoryName,
              !.timesUsed = BumpTimesUsed(r.timesUsed),
              !.updatedAt = t]

\* the new-rule branch of learn-rule
NewRule(pattern, patternType, categoryId, categoryName, t) ==
    [id |-> t, pattern |-> pattern, patternType |-> patternType,
     categoryId |-> categoryId, categoryName |-> categoryName,
     confidence |-> 100, timesUsed |-> 1, createdAt |-> t,
     updatedAt |-> Undefined]

\* a learn-rule that yields between the assignment of categoryId and that of
\* categoryName, leaving the half-written rule in the store
TeachHalfWritten(rules, pattern, patternType, categoryId, categoryName, t) ==
    LET existingIndex == findIndex(rules, pattern, patternType)
    IN IF existingIndex >= 1
       THEN [rules EXCEPT ![existingIndex].categoryId = categoryId]
       ELSE Append(rules, NewRule(pattern, patternType, categoryId, categoryName, t))

\* the rule list after the body of learn-rule
Teach(rules, pattern, patternType, categoryId, categoryName, t) ==
    LET existingIndex == findIndex(rules, pattern, patternType)
    IN IF existingIndex >= 1
       THEN [rules EXCEPT ![existingIndex] =
                UpdateRule(rules[existingIndex], categoryId, categoryName, t)]
       ELSE Append(rules, NewRule(pattern, patternType, categoryId, categoryName, t))

\* a delete that rebuilds the list back to front
RECURSIVE FilterOutIdReversed(_, _)
FilterOutIdReversed(rules, id) ==
    IF rules = <<>> THEN <<>>
    ELSE IF Head(rules).id # id
         THEN FilterOutIdReversed(Tail(rules), id) \o <<Head(rules)>>
         ELSE FilterOutIdReversed(Tail(rules), id)

\* learnedRules.filter(r => r.id !== id)
RECURSIVE FilterOutId(_, _)
FilterOutId(rules, id) ==
    IF rules = <<>> THEN <<>>
    ELSE IF Head(rules).id # id
         THEN <<Head(rules)>> \o FilterOutId(Tail(rules), id)
         ELSE FilterOutId(Tail(rules), id)

\* what learn-rule answers after await saveRules()
LearnRuleResponse(saved, rulesCount) ==
    [status |-> 200, success |-> TRUE, error |-> "", rulesCount |-> rulesCount]

\* what DELETE rules/:id answers after await saveRules()
DeleteRuleResponse(saved) ==
    [status |-> 200, success |-> TRUE, error |-> "", rulesCount |-> Undefined]

\* ---------------------------------------------------------- rule matching
\* a property the request body does not carry
AbsentField == <<"(absent)">>

\* `${x}` in a template literal: undefined is rendered as the word
TemplateText(x) ==
    IF x = AbsentField THEN <<"u", "n", "d", "e", "f", "i", "n", "e", "d">> ELSE x

\* const searchText = `${description} ${vendorName}`.toLowerCase()
searchText(description, vendorName) ==
    toLowerCase(TemplateText(description) \o <<" ">> \o TemplateText(vendorName))

\* the if / else-if / else over rule.patternType
RuleMatches(rule, text) ==
    LET pattern == toLowerCase(rule.pattern)
    IN CASE rule.patternType = "exact" -> text = pattern
         [] rule.patternType = "starts_with" -> startsWith(text, pattern)
         [] OTHER -> includes(text, pattern)

\* null
Null == [source |-> "none"]

IsNull(x) == x.source = "none"

\* rule.confidence || 1.0
ConfidenceOrDefault(c) == IF c = Undefined \/ c = 0 THEN 100 ELSE c

\* the object findMatchingRule returns for a matched rule
RuleSuggestion(rule) ==
    [categoryId |-> rule.categoryId, categoryName |-> rule.categoryName,
     confidence |-> ConfidenceOrDefault(rule.confidence),
     source |-> "learned_rule", ruleId |-> rule.id]

\* a scan that keeps going and returns the last rule that matches
RECURSIVE ScanLastFrom(_, _, _, _)
ScanLastFrom(rules, i, text, found) ==
    IF i > Len(rules) THEN found
    ELSE ScanLastFrom(rules, i + 1, text,
                      IF RuleMatches(rules[i], text) THEN RuleSuggestion(rules[i]) ELSE found)

findMatchingRuleLast(rules, description, vendorName) ==
    ScanLastFrom(rules, 1, searchText(description, vendorName), Null)

\* for (const rule of learnedRules) { ... if (matched) return {...} } return null
RECURSIVE ScanFrom(_, _, _)
ScanFrom(rules, i, text) ==
    IF i > Len(rules) THEN Null
    ELSE IF RuleMatches(rules[i], text)
         THEN RuleSuggestion(rules[i])
         ELSE ScanFrom(rules, i + 1, text)

findMatchingRule(rules, description, vendorName) ==
    ScanFrom(rules, 1, searchText(description, vendorName))

\* ------------------------------------------------------------- classifier
\* what anthropic.messages.create can do: reject, or resolve with a text that
\* holds no {...}, a {...} that JSON.parse rejects, or a JSON object
AIReplies ==
    { [throws |-> TRUE, braces |-> FALSE, parses |-> FALSE, obj |-> Null],
      [throws |-> FALSE, braces |-> FALSE, parses |-> FALSE, obj |-> Null],
      [throws |-> FALSE, braces |-> TRUE, parses |-> FALSE, obj |-> Null],
      [throws |-> FALSE, braces |-> TRUE, parses |-> TRUE,
       obj |-> [categoryId |-> Undefined, categoryName |-> "", confidence |-> 0,
                source |-> "absent"]],
      [throws |-> FALSE, braces |-> TRUE, parses |-> TRUE,
       obj |-> [categoryId |-> 1, categoryName |-> "n1", confidence |-> 100,
                source |-> "learned_rule"]] }

\* an aiCategorize whose catch block rethrows
aiCategorizeRethrows(reply) ==
    IF reply.throws \/ (reply.braces /\ ~ reply.parses) THEN [source |-> "throw"]
    ELSE IF ~ reply.braces THEN Null
    ELSE [reply.obj EXCEPT !.source = "ai"]

\* the try/catch of aiCategorize, given the reply of the classifier
aiCategorize(reply) ==
    IF reply.throws THEN Null
    ELSE IF ~ reply.braces THEN Null
    ELSE IF ~ reply.parses THEN Null
    ELSE [reply.obj EXCEPT !.source = "ai"]

\* a threshold test with > in place of >=
AutoApprovesAbove(ruleMatch) == ~ IsNull(ruleMatch) /\ ruleMatch.confidence > 95

\* if (ruleMatch && ruleMatch.confidence >= 0.95)
AutoApproves(ruleMatch) == ~ IsNull(ruleMatch) /\ ruleMatch.confidence >= 95

\* a final suggestion that prefers the rule match
RuleOrAi(aiResult, ruleMatch) == IF ~ IsNull(ruleMatch) THEN ruleMatch ELSE aiResult

\* aiResult || ruleMatch
AiOrRule(aiResult, ruleMatch) == IF ~ IsNull(aiResult) THEN aiResult ELSE ruleMatch

\* ------------------------------------------------- ledger queries (pages)
maxResults == 1000
MaxStartPosition == 10000

\* the upstream answers one query with at most MaxFullPages full pages
MaxFullPages == 1

\* at most MaxFailures queries of one aggregation run fail upstream
MaxFailures == 1

\* what one /query call can bring: an error, or n records of which `expense`
\* are accounts of an expense-bearing type
PageResponses ==
    { [ok |-> FALSE, n |-> 0, expense |-> 0],
      [ok |-> TRUE, n |-> 0, expense |-> 0],
      [ok |-> TRUE, n |-> 1, expense |-> 1],
      [ok |-> TRUE, n |-> maxResults, expense |-> 1] }

\* ensureValidToken, with expires_at far enough away that no refresh is due:
\* TRUE when it throws 'Not authenticated'
ensureValidTokenThrows == ~ tokens

\* fetchAllRecords before its first query
NewFetch(entityType) ==
    [entityType |-> entityType, startPosition |-> 1, allRecords |-> 0,
     expense |-> 0, pages |-> 0, failed |-> FALSE]

\* one pass of the while loop of fetchAllRecords after the query result came:
\* the loop variables and whether another query is sent (hasMore and a token)
FetchOnPage(f, page) ==
    IF ~ page.ok
    THEN [f |-> [f EXCEPT !.failed = TRUE], more |-> FALSE]
    ELSE LET sp == IF page.n < maxResults THEN f.startPosition
                   ELSE f.startPosition + maxResults
             hasMore == ~ (page.n < maxResults) /\ ~ (sp > MaxStartPosition)
             f2 == [f EXCEPT !.allRecords = @ + page.n,
                             !.expense = @ + page.expense,
                             !.pages = @ + 1,
                             !.startPosition = sp]
         IN IF hasMore /\ ensureValidTokenThrows
            THEN [f |-> [f2 EXCEPT !.failed = TRUE], more |-> FALSE]
            ELSE [f |-> f2, more |-> hasMore]

\* categoryCache = { categories: expenseAccounts.map(...), lastFetched: Date.now() }
CacheFrom(f) == [categories |-> f.expense, lastFetched |-> now]

\* ------------------------------------------------------ request handlers
\* what a handler segment leaves behind: the request still in flight (or Idle),
\* the response sent (or NoResponse) and the category cache
Out(rq, rs, cache) == [req |-> rq, res |-> rs, cache |-> cache]

Respond(r, body) ==
    [route |-> r.route, body |-> body, txns |-> r.txns, trace |-> r.trace,
     tokenMissing |-> r.tokenMissing]

NotAuthenticated == [status |-> 401, error |-> "Not authenticated"]

\* the catch block of a handler: res.status(500).json({ error: err.message })
ServerError(message) == [status |-> 500, error |-> message]

Throws(x) == x.source = "throw"

\* a response that approves what a confident classifier says
ClassifiedBodyTrustsAi(aiResult, ruleMatch) ==
    [status |-> 200, error |-> "", suggestion |-> AiOrRule(aiResult, ruleMatch),
     autoApproved |-> AiOrRule(aiResult, ruleMatch).source # "none"
                      /\ AiOrRule(aiResult, ruleMatch).confidence >= 95]

\* res.json({ suggestion: aiResult || ruleMatch, autoApproved: false })
ClassifiedBody(aiResult, ruleMatch) ==
    [status |-> 200, error |-> "", suggestion |-> AiOrRule(aiResult, ruleMatch),
     autoApproved |-> FALSE]

\* res.json({ suggestion: ruleMatch, autoApproved: true })
AutoApprovedBody(ruleMatch) ==
    [status |-> 200, error |-> "", suggestion |-> ruleMatch, autoApproved |-> TRUE]

\* no reply of the classifier (yet)
NoReply == [throws |-> FALSE, braces |-> FALSE, parses |-> FALSE, obj |-> [source |-> "unasked"]]

\* what the handler did for one transaction: the rules it scanned, whether
\* aiCategorize ran ("skipped": not called, "disabled": returned null without a
\* client, "called": messages.create was awaited) and what the classifier replied
TraceEntry(txn, classified) ==
    [txn |-> txn, rules |-> learnedRules, classified |-> classified, reply |-> NoReply]

\* categorize from `const aiResult = await aiCategorize(...)` on
CategorizeClassify(r, cache) ==
    IF ~ anthropic
    THEN LET r2 == [r EXCEPT !.trace = <<TraceEntry(r.txns[1], "disabled")>>]
         IN Out(Idle, Respond(r2, ClassifiedBody(Null, r.ruleMatch)), cache)
    ELSE Out([r EXCEPT !.pc = "ai", !.trace = <<TraceEntry(r.txns[1], "called")>>],
             NoResponse, cache)

\* a for loop that starts the classifier call of an item and goes on to the next
\* item without awaiting the reply
RECURSIVE BatchLoopNoAwait(_, _, _)
BatchLoopNoAwait(r, i, cache) ==
    IF i > Len(r.txns)
    THEN Out(Idle, Respond(r, [status |-> 200, error |-> "", results |-> r.results]), cache)
    ELSE LET txn == r.txns[i]
             ruleMatch == findMatchingRule(learnedRules, txn.description, txn.vendor)
         IN IF AutoApproves(ruleMatch)
            THEN BatchLoopNoAwait([r EXCEPT
                              !.results = Append(@, [transactionId |-> txn.id,
                                                     suggestion |-> ruleMatch,
                                                     autoApproved |-> TRUE]),
                              !.trace = Append(@, TraceEntry(txn, "skipped"))],
                           i + 1, cache)
            ELSE BatchLoopNoAwait([r EXCEPT
                              !.results = Append(@, [transactionId |-> txn.id,
                                                     suggestion |-> ruleMatch,
                                                     autoApproved |-> FALSE]),
                              !.trace = Append(@, TraceEntry(txn,
                                            IF anthropic THEN "called" ELSE "disabled"))],
                           i + 1, cache)

\* categorize-batch: the for loop from item i up to the next awaited classifier
\* call, or to res.json({ results })
RECURSIVE BatchLoop(_, _, _)
BatchLoop(r, i, cache) ==
    IF i > Len(r.txns)
    THEN Out(Idle, Respond(r, [status |-> 200, error |-> "", results |-> r.results]), cache)
    ELSE LET txn == r.txns[i]
             ruleMatch == findMatchingRule(learnedRules, txn.description, txn.vendor)
         IN IF AutoApproves(ruleMatch)
            THEN BatchLoop([r EXCEPT
                              !.results = Append(@, [transactionId |-> txn.id,
                                                     suggestion |-> ruleMatch,
                                                     autoApproved |-> TRUE]),
                              !.trace = Append(@, TraceEntry(txn, "skipped"))],
                           i + 1, cache)
            ELSE IF ~ anthropic
            THEN BatchLoop([r EXCEPT
                              !.results = Append(@, [transactionId |-> txn.id,
                                                     suggestion |-> AiOrRule(Null, ruleMatch),
                                                     autoApproved |-> FALSE]),
                              !.trace = Append(@, TraceEntry(txn, "disabled"))],
                           i + 1, cache)
            ELSE Out([r EXCEPT !.pc = "ai", !.i = i, !.ruleMatch = ruleMatch,
                               !.trace = Append(@, TraceEntry(txn, "called"))],
                     NoResponse, cache)

\* the fetchAllRecords calls of fetchFinancialData, in order
EntityTypes ==
    << "Purchase", "Bill", "JournalEntry", "VendorCredit", "SalesReceipt",
       "Payment", "Deposit", "RefundReceipt", "Account", "Vendor" >>

\* an entity type whose fetchAllRecords ended in its catch block, and the
\* records of earlier pages it still returned
FailedType(f) == [entityType |-> f.entityType, kept |-> f.allRecords]

\* fetchFinancialData from the fetchAllRecords call of entity type e up to the
\* next awaited query, or to the response when all types are fetched
RECURSIVE DataFetchFrom(_, _)
DataFetchFrom(r, e) ==
    IF e > Len(EntityTypes)
    THEN Out(Idle, Respond(r, [status |-> 200, error |-> "", success |-> TRUE]),
             categoryCache)
    ELSE IF ensureValidTokenThrows
    THEN DataFetchFrom([r EXCEPT !.trace =
                           Append(@, FailedType([NewFetch(EntityTypes[e])
                                                    EXCEPT !.failed = TRUE]))],
                       e + 1)
    ELSE Out([r EXCEPT !.pc = "fetch", !.entity = e,
                       !.fetch = NewFetch(EntityTypes[e])],
             NoResponse, categoryCache)

\* Refresh if older than 1 hour
StaleAfter == 3600000

\* !categoryCache.lastFetched || Date.now() - categoryCache.lastFetched > 3600000
CacheIsStale ==
    \/ categoryCache.lastFetched = Undefined
    \/ now - categoryCache.lastFetched > StaleAfter

\* a handler that starts fetchAndCacheCategories: the first query is sent unless
\* ensureValidToken throws, which fetchAllRecords catches and returns []
RECURSIVE AfterCategories(_, _)
StartCategories(r) ==
    IF ensureValidTokenThrows
    THEN AfterCategories(r, CacheFrom([NewFetch("Account") EXCEPT !.failed = TRUE]))
    ELSE Out([r EXCEPT !.pc = "fetch", !.fetch = NewFetch("Account")],
             NoResponse, categoryCache)

\* the code after `await fetchAndCacheCategories()` of each route
AfterCategories(r, cache) ==
    CASE r.route = "categorize" -> CategorizeClassify(r, cache)
      [] r.route = "categorize-batch" -> BatchLoop(r, 1, cache)
      [] OTHER -> Out(Idle, Respond(r, [status |-> 200, error |-> "",
                                        categories |-> cache.categories]), cache)

NewRequest(route, txns) ==
    [route |-> route, pc |-> "start", txns |-> txns, i |-> 1, results |-> <<>>,
     ruleMatch |-> Null, trace |-> <<>>, fetch |-> NewFetch("none"),
     entity |-> 0, tokenMissing |-> ~ tokens]

\* POST /api/quickbooks/categorize up to its first await
CategorizeStart(txn) ==
    LET r == NewRequest("categorize", <<txn>>)
        ruleMatch == findMatchingRule(learnedRules, txn.description, txn.vendor)
    IN IF ~ tokens THEN Out(Idle, Respond(r, NotAuthenticated), categoryCache)
       ELSE IF AutoApproves(ruleMatch)
       THEN Out(Idle, Respond([r EXCEPT !.trace = <<TraceEntry(txn, "skipped")>>],
                              AutoApprovedBody(ruleMatch)), categoryCache)
       ELSE IF categoryCache.categories = 0
       THEN StartCategories([r EXCEPT !.ruleMatch = ruleMatch])
       ELSE CategorizeClassify([r EXCEPT !.ruleMatch = ruleMatch], categoryCache)

\* POST /api/quickbooks/categorize-batch up to its first await
BatchStart(txns) ==
    LET r == NewRequest("categorize-batch", txns)
    IN IF ~ tokens THEN Out(Idle, Respond(r, NotAuthenticated), categoryCache)
       ELSE IF categoryCache.categories = 0
       THEN StartCategories(r)
       ELSE BatchLoop(r, 1, categoryCache)

\* the handler resumes with the classifier's reply
OnClassifierReply(r0, reply) ==
    LET aiResult == aiCategorize(reply)
        r == [r0 EXCEPT !.trace[Len(r0.trace)].reply = reply]
    IN IF Throws(aiResult)
       THEN Out(Idle, Respond(r, ServerError("classifier")), categoryCache)
       ELSE IF r.route = "categorize"
       THEN Out(Idle, Respond(r, ClassifiedBody(aiResult, r.ruleMatch)), categoryCache)
       ELSE BatchLoop([r EXCEPT
                         !.results = Append(@, [transactionId |-> r.txns[r.i].id,
                                                suggestion |-> AiOrRule(aiResult, r.ruleMatch),
                                                autoApproved |-> FALSE])],
                      r.i + 1, categoryCache)

\* the handler resumes with the result of a paged query
OnPage(r, page) ==
    LET step == FetchOnPage(r.fetch, page)
        r2 == [r EXCEPT !.fetch = step.f]
    IN IF step.more
       THEN Out(r2, NoResponse, categoryCache)
       ELSE IF r.route \in {"data", "refresh"}
       THEN DataFetchFrom(IF step.f.failed
                          THEN [r2 EXCEPT !.trace = Append(@, FailedType(step.f))]
                          ELSE r2,
                          r.entity + 1)
       ELSE AfterCategories(r2, CacheFrom(step.f))

\* GET /api/quickbooks/categories up to its first await
CategoriesStart ==
    LET r == NewRequest("categories", <<>>)
    IN IF ~ tokens THEN Out(Idle, Respond(r, NotAuthenticated), categoryCache)
       ELSE IF CacheIsStale
       THEN StartCategories(r)
       ELSE Out(Idle, Respond(r, [status |-> 200, error |-> "",
                                  categories |-> categoryCache.categories]),
                categoryCache)

\* GET /api/quickbooks/data and POST /api/quickbooks/refresh up to the await of
\* the ProfitAndLoss report (ensureValidToken passes: the handler just saw the token)
DataStart(route) ==
    LET r == NewRequest(route, <<>>)
    IN IF ~ tokens THEN Out(Idle, Respond(r, NotAuthenticated), categoryCache)
       ELSE Out([r EXCEPT !.pc = "report"], NoResponse, categoryCache)

\* fetchFinancialData resumes with the report, or qbApiCall throws on !response.ok
OnReport(r, ok) ==
    IF ~ ok
    THEN Out(Idle, Respond(r, ServerError("QuickBooks API error")), categoryCache)
    ELSE DataFetchFrom(r, 1)

\* POST /api/quickbooks/update-transaction up to the await of its SELECT
UpdateStart ==
    LET r == NewRequest("update-transaction", <<>>)
    IN IF ~ tokens THEN Out(Idle, Respond(r, NotAuthenticated), categoryCache)
       ELSE Out([r EXCEPT !.pc = "select"], NoResponse, categoryCache)

\* update-transaction resumes with the SELECT result and sends the update
OnSelect(r, ok, found) ==
    IF ~ ok
    THEN Out(Idle, Respond(r, ServerError("QuickBooks API error")), categoryCache)
    ELSE IF ~ found
    THEN Out(Idle, Respond(r, [status |-> 404, error |-> "Transaction not found"]),
             categoryCache)
    ELSE IF ensureValidTokenThrows
    THEN Out(Idle, Respond(r, ServerError("Not authenticated")), categoryCache)
    ELSE Out([r EXCEPT !.pc = "update"], NoResponse, categoryCache)

\* update-transaction resumes with the result of the update call
OnUpdate(r, ok) ==
    IF ~ ok
    THEN Out(Idle, Respond(r, ServerError("QuickBooks API error")), categoryCache)
    ELSE Out(Idle, Respond(r, [status |-> 200, error |-> "", success |-> TRUE]),
             categoryCache)

\* request bodies of the resolver routes
Txns ==
    { [id |-> 1, description |-> <<"A">>, vendor |-> AbsentField],
      [id |-> 2, description |-> <<"A">>, vendor |-> <<>>],
      [id |-> 3, description |-> <<"b">>, vendor |-> <<"A">>] }

MaxBatch == 2

Batches == UNION { [1..n -> Txns] : n \in 1..MaxBatch }

\* ------------------------------------------------------------- normalizer
MaxRecords == 2

\* the chart of accounts upstream: Id, Name and AccountType of each account
Chart ==
    { [Id |-> "e", Name |-> <<"r", "e", "n", "t">>, AccountType |-> "Expense"],
      [Id |-> "w", Name |-> <<"W", "a", "g", "e", "s">>, AccountType |-> "Expense"],
      [Id |-> "i", Name |-> <<"s", "a", "l", "e", "s">>, AccountType |-> "Income"],
      [Id |-> "b", Name |-> <<"b", "a", "n", "k">>, AccountType |-> "Bank"],
      [Id |-> "c", Name |-> <<"v", "i", "s", "a">>, AccountType |-> "Credit Card"] }

\* 'Journal Entry', the account name of a line whose account is not in the map
JournalEntryName == <<"J", "o", "u", "r", "n", "a", "l", " ", "E", "n", "t", "r", "y">>

\* acctRef?.name || accountMap[acctRef?.value]?.name || 'Journal Entry', for
\* lines whose AccountRef carries no name
AccountNameOf(accountRecords, id) ==
    IF \E a \in accountRecords : a.Id = id
    THEN (CHOOSE a \in accountRecords : a.Id = id).Name
    ELSE JournalEntryName

Payroll == <<"p", "a", "y", "r", "o", "l", "l">>
Wage == <<"w", "a", "g", "e">>
Salary == <<"s", "a", "l", "a", "r", "y">>
Paychex == <<"p", "a", "y", "c", "h", "e", "x">>

\* the PrivateNote of the JournalEntries the upstream can hold
Memos ==
    { <<>>, <<"w", "a", "g", "e", "s">>, Salary, <<"P", "a", "y", "r", "o", "l", "l">>,
      Paychex }

\* const isPayroll = acctName... || memo...
isPayroll(acctName, memo) ==
    \/ \E keyword \in {Payroll, Wage, Salary, Paychex} :
          includes(toLowerCase(acctName), keyword)
    \/ \E keyword \in {Payroll, Paychex} : includes(toLowerCase(memo), keyword)

\* category: isPayroll ? 'Payroll Expenses' : acctName
PayrollExpenses == <<"Payroll Expenses">>

JournalCategory(acctName, memo) ==
    IF isPayroll(acctName, memo) THEN PayrollExpenses ELSE acctName

\* accountMap[id]?.type || ''
AccountTypeOf(accountRecords, id) ==
    IF \E a \in accountRecords : a.Id = id
    THEN (CHOOSE a \in accountRecords : a.Id = id).AccountType
    ELSE ""

\* Math.abs
Abs(x) == IF x < 0 THEN -x ELSE x

\* a line of a Purchase, Bill or JournalEntry: the detail it carries, its
\* Amount, and for a journal line the PostingType and the account
Line(detail, amount, postingType, account) ==
    [detail |-> detail, Amount |-> amount, PostingType |-> postingType,
     AccountRef |-> account]

ExpenseLine(detail, amount) == Line(detail, amount, "none", "e")

\* the Line arrays of the Purchases and Bills the upstream can hold
ExpenseLines ==
    { <<>>,
      <<ExpenseLine("AccountBasedExpenseLineDetail", 50)>>,
      <<ExpenseLine("AccountBasedExpenseLineDetail", 50),
        ExpenseLine("AccountBasedExpenseLineDetail", -10)>>,
      <<ExpenseLine("ItemBasedExpenseLineDetail", 50)>>,
      <<ExpenseLine("DescriptionOnly", 0),
        ExpenseLine("AccountBasedExpenseLineDetail", 50)>>,
      <<ExpenseLine("AccountBasedExpenseLineDetail", 0)>> }

\* the Line arrays of the JournalEntries the upstream can hold
JournalLines ==
    { <<Line("JournalEntryLineDetail", amount, postingType, a.Id)>> :
        amount \in {0, 50}, postingType \in {"Debit", "Credit"}, a \in Chart }
    \cup { <<Line("DescriptionOnly", 0, "none", "e"),
             Line("JournalEntryLineDetail", 50, "Debit", "e")>> }

\* the records a /query page can deliver
RawRecords ==
    { [kind |-> k, Id |-> id, TotalAmt |-> 50, Line |-> l, PrivateNote |-> <<>>] :
        k \in {"Purchase", "Bill"}, id \in 1..2, l \in ExpenseLines }
    \cup { [kind |-> "JournalEntry", Id |-> 1, TotalAmt |-> 50, Line |-> l,
            PrivateNote |-> memo] : l \in JournalLines, memo \in Memos }

\* the lineDetails of a Purchase: .map(...).filter(Boolean)
PurchaseLineDetails(lines) ==
    SelectSeq(lines, LAMBDA line :
        line.detail \in {"AccountBasedExpenseLineDetail", "ItemBasedExpenseLineDetail"})

\* the lineDetails of a Bill
BillLineDetails(lines) ==
    SelectSeq(lines, LAMBDA line : line.detail = "AccountBasedExpenseLineDetail")

\* the txn object of one line of a Purchase or Bill; idx counts from 0
LineTransaction(prefix, r, line, idx) ==
    [id |-> [prefix |-> prefix, Id |-> r.Id, idx |-> idx],
     qbId |-> r.Id, qbType |-> r.kind, amount |-> - Abs(line.Amount),
     type |-> "expense", needsReview |-> FALSE]

\* purchaseRecords.forEach(p => ...) for one Purchase
PurchaseTransactions(p) ==
    LET lineDetails == PurchaseLineDetails(p.Line)
    IN IF Len(lineDetails) > 0
       THEN [k \in 1..Len(lineDetails) |->
               LineTransaction("purchase", p, lineDetails[k], k - 1)]
       ELSE << [id |-> [prefix |-> "purchase", Id |-> p.Id, idx |-> Undefined],
                qbId |-> p.Id, qbType |-> "Purchase", amount |-> - Abs(p.TotalAmt),
                type |-> "expense", needsReview |-> TRUE] >>

\* billRecords.forEach(b => ...) for one Bill
BillTransactions(b) ==
    LET lineDetails == BillLineDetails(b.Line)
    IN [k \in 1..Len(lineDetails) |-> LineTransaction("bill", b, lineDetails[k], k - 1)]

\* a journal loop that ignores the posting type: every line of an expense-like
\* or income-like account is money out
JournalLineTransactionsDebitOnly(je, idx, accountRecords) ==
    LET line == je.Line[idx + 1]
        acctType == AccountTypeOf(accountRecords, line.AccountRef)
        acctName == AccountNameOf(accountRecords, line.AccountRef)
        amount == line.Amount
        txn(txnType, txnAmount) ==
            << [id |-> [prefix |-> "journal", Id |-> je.Id, idx |-> idx],
                qbId |-> je.Id, qbType |-> "JournalEntry", amount |-> txnAmount,
                type |-> txnType, needsReview |-> FALSE,
                category |-> JournalCategory(acctName, je.PrivateNote),
                isPayroll |-> isPayroll(acctName, je.PrivateNote)] >>
    IN IF line.detail # "JournalEntryLineDetail" \/ amount = 0 THEN <<>>
       ELSE IF acctType \in {"Expense", "Cost of Goods Sold", "Other Expense"}
       THEN txn("expense", - Abs(amount))
       ELSE IF acctType \in {"Income", "Other Income"}
       THEN txn("income", - Abs(amount))
       ELSE IF acctType \in {"Other Current Liability", "Long Term Liability", "Bank",
                             "Other Current Asset", "Fixed Asset"}
       THEN <<>>
       ELSE IF line.PostingType = "Debit" THEN txn("expense", - Abs(amount))
       ELSE <<>>

\* the object pushed for a journal line, or <<>> when the line returns early
JournalLineTransactions(je, idx, accountRecords) ==
    LET line == je.Line[idx + 1]
        acctType == AccountTypeOf(accountRecords, line.AccountRef)
        acctName == AccountNameOf(accountRecords, line.AccountRef)
        amount == line.Amount
        txn(txnType, txnAmount) ==
            << [id |-> [prefix |-> "journal", Id |-> je.Id, idx |-> idx],
                qbId |-> je.Id, qbType |-> "JournalEntry", amount |-> txnAmount,
                type |-> txnType, needsReview |-> FALSE,
                category |-> JournalCategory(acctName, je.PrivateNote),
                isPayroll |-> isPayroll(acctName, je.PrivateNote)] >>
    IN IF line.detail # "JournalEntryLineDetail" \/ amount = 0 THEN <<>>
       ELSE IF acctType \in {"Expense", "Cost of Goods Sold", "Other Expense"}
       THEN IF line.PostingType = "Debit" THEN txn("expense", - Abs(amount))
            ELSE txn("expense", Abs(amount))
       ELSE IF acctType \in {"Income", "Other Income"}
       THEN IF line.PostingType = "Credit" THEN txn("income", Abs(amount))
            ELSE txn("income", - Abs(amount))
       ELSE IF acctType \in {"Other Current Liability", "Long Term Liability", "Bank",
                             "Other Current Asset", "Fixed Asset"}
       THEN <<>>
       ELSE IF line.PostingType = "Debit" THEN txn("expense", - Abs(amount))
       ELSE <<>>

\* (je.Line || []).forEach((line, idx) => ...) from line idx on
RECURSIVE JournalFrom(_, _, _)
JournalFrom(je, idx, accountRecords) ==
    IF idx >= Len(je.Line) THEN <<>>
    ELSE JournalLineTransactions(je, idx, accountRecords)
         \o JournalFrom(je, idx + 1, accountRecords)

\* what one record pushes on transactions
RecordTransactions(r, accountRecords) ==
    CASE r.kind = "Purchase" -> PurchaseTransactions(r)
      [] r.kind = "Bill" -> BillTransactions(r)
      [] OTHER -> JournalFrom(r, 0, accountRecords)

\* the forEach over the records of one entity type, from record k on
RECURSIVE ForEachFrom(_, _, _, _)
ForEachFrom(records, k, kind, accountRecords) ==
    IF k > Len(records) THEN <<>>
    ELSE (IF records[k].kind = kind
          THEN RecordTransactions(records[k], accountRecords) ELSE <<>>)
         \o ForEachFrom(records, k + 1, kind, accountRecords)

\* transactions after the Purchases, the Bills and the Journal Entries
Normalize(records, accountRecords) ==
    ForEachFrom(records, 1, "Purchase", accountRecords)
    \o ForEachFrom(records, 1, "Bill", accountRecords)
    \o ForEachFrom(records, 1, "JournalEntry", accountRecords)

\* no aggregation run yet
NoAggregation ==
    [pc |-> "idle", allRecords |-> <<>>, accountRecords |-> {}, transactions |-> <<>>]

\* ------------------------------------------------------------- bank feed
MaxConnections == 2
MaxCursor == 2
MaxFetches == 1
MaxDisconnects == 2
MaxPageRequests == 5001

\* options: { count: 500, offset }
PlaidCount == 500

\* Safety limit - max 5000 transactions per institution
PlaidSafetyLimit == 5000

\* the accounts of an institution and the amounts of upstream items
AccountIds == { "x", "y" }
Amounts == { -5, 5 }

\* an excluded_accounts field: missing, or an array of account ids
NoArray == [defined |-> FALSE, ids |-> {}]

\* account.excluded_accounts || []
OrEmptyArray(a) == [defined |-> TRUE, ids |-> a.ids]

\* newAccount of exchange-token: cursor: null and no excluded_accounts field
newAccount(id) == [id |-> id, cursor |-> Undefined, excluded |-> NoArray]

\* account.cursor || ''  (0 is the empty cursor)
CursorOrEmpty(cursor) == IF cursor = Undefined THEN 0 ELSE cursor

\* the object a plaid_connections row holds: no cursor column
UpsertRow(account) == [id |-> account.id, excluded |-> OrEmptyArray(account.excluded)]

\* an object of plaidAccounts built from a row by loadPlaidTokens
FromRow(row) == [id |-> row.id, cursor |-> Undefined, excluded |-> OrEmptyArray(row.excluded)]

\* .order('connected_at', { ascending: false }): ids grow with connected_at
RECURSIVE OrderByConnectedAtDesc(_)
OrderByConnectedAtDesc(rows) ==
    IF rows = {} THEN <<>>
    ELSE LET r == CHOOSE r \in rows : \A q \in rows : q.id <= r.id
         IN <<FromRow(r)>> \o OrderByConnectedAtDesc(rows \ {r})

IdsOf(accounts) == { accounts[i].id : i \in 1..Len(accounts) }

\* savePlaidTokens: an upsert per object when Supabase is there, then the file
savePlaidTokens(store, accounts) ==
    [rows |-> IF supabase
              THEN { r \in store.rows : r.id \notin IdsOf(accounts) }
                   \cup { UpsertRow(accounts[i]) : i \in 1..Len(accounts) }
              ELSE store.rows,
     file |-> accounts]

\* deletePlaidTokenFromSupabase
deletePlaidTokenFromSupabase(store, accountId) ==
    [store EXCEPT !.rows = IF supabase THEN { r \in @ : r.id # accountId } ELSE @]

\* loadPlaidTokens: the rows when Supabase has any, else the file, which is then
\* migrated to Supabase; gives plaidAccounts and the store afterwards
loadPlaidTokens(store) ==
    IF supabase /\ store.rows # {}
    THEN [accounts |-> OrderByConnectedAtDesc(store.rows), store |-> store]
    ELSE [accounts |-> store.file,
          store |-> IF supabase /\ Len(store.file) > 0
                    THEN savePlaidTokens(store, store.file) ELSE store]

\* plaidAccounts.findIndex(a => a.id === account_id); 0 for -1
RECURSIVE FindAccountFrom(_, _, _)
FindAccountFrom(accounts, i, id) ==
    IF i > Len(accounts) THEN 0
    ELSE IF accounts[i].id = id THEN i
    ELSE FindAccountFrom(accounts, i + 1, id)

findAccountIndex(accounts, id) == FindAccountFrom(accounts, 1, id)

\* plaidAccounts.splice(accountIndex, 1)
splice(accounts, accountIndex) ==
    IF accountIndex > Len(accounts) THEN accounts
    ELSE SubSeq(accounts, 1, accountIndex - 1)
         \o SubSeq(accounts, accountIndex + 1, Len(accounts))

\* no upstream item ingested yet
NoItem ==
    [item |-> [n |-> 0, account_id |-> "x", amount |-> 0], emitted |-> FALSE,
     txn |-> [plaid_account_id |-> 0, account_id |-> "x", amount |-> 0,
              type |-> "none"]]

\* no bank-feed response sent yet
NoPlaidResponse ==
    [route |-> "none", status |-> 0, target |-> 0, removed |-> {},
     invalidation |-> "none", count |-> 0, missed |-> 0, barred |-> 0,
     last |-> NoItem, errors |-> 0, visited |-> <<>>]

\* a server without Supabase and without a linked institution
NoBankFeed ==
    /\ supabase = FALSE
    /\ plaidAccounts = <<>>
    /\ plaidStore = [rows |-> {}, file |-> <<>>]
    /\ plaidReqs = <<>>
    /\ plaidRes = NoPlaidResponse
    /\ cursorStored = [id \in 1..MaxConnections |-> 0]
    /\ aggregation = NoAggregation


\* ------------------------------------------------------- bank-feed handlers
\* a bank-feed handler before its first await
NewPlaidRequest(route) ==
    [route |-> route, pc |-> "start", next |-> 1, account |-> newAccount(0),
     accountIndex |-> 0, offset |-> 0, pages |-> 0,
     excl |-> [live |-> FALSE, ids |-> {}], sent |-> [cursor |-> 0, stored |-> 0],
     asked |-> {}, count |-> 0, missed |-> 0, barred |-> 0, last |-> NoItem,
     errors |-> 0, visited |-> <<>>]

\* the object the handler's `account` refers to: the registry's object, or the
\* object as it was when a disconnect spliced it out
ObjectOf(accounts, r) ==
    LET i == findAccountIndex(accounts, r.account.id)
    IN IF i = 0 THEN r.account ELSE accounts[i]

\* const excludedAccounts of transactions/get: the array the object had when the
\* loop started (it follows pushes to that array), or a private empty array
ExcludedAccounts(accounts, r) ==
    IF r.excl.live THEN ObjectOf(accounts, r).excluded.ids ELSE r.excl.ids

\* the object the .map(t => ...) of sync and transactions/get builds
PlaidTransaction(account, t) ==
    [plaid_account_id |-> account.id, account_id |-> t.account_id,
     amount |-> t.amount, type |-> IF t.amount > 0 THEN "expense" ELSE "income"]

\* .filter(t => !excludedAccounts.includes(t.account_id)).map(...) and
\* allTransactions.push(...transactions) for n upstream items that are alike.
\* count is allTransactions.length and last the latest items with the object
\* made of them.  r.asked is the connection's excluded set when the request
\* was sent: barred counts the objects made for an account that was excluded
\* then and is excluded now, missed the items dropped though their account was
\* excluded neither then nor now
Ingest(r, object, excludedIds, items) ==
    IF items.n = 0 THEN r
    ELSE LET emitted == items.account_id \notin excludedIds
             excludedAllAlong == /\ items.account_id \in r.asked
                                 /\ items.account_id \in object.excluded.ids
             includedAllAlong == /\ items.account_id \notin r.asked
                                 /\ items.account_id \notin object.excluded.ids
         IN [r EXCEPT
               !.count = IF emitted THEN @ + items.n ELSE @,
               !.missed = IF ~ emitted /\ includedAllAlong THEN @ + items.n ELSE @,
               !.barred = IF emitted /\ excludedAllAlong THEN @ + items.n ELSE @,
               !.last = [item |-> items, emitted |-> emitted,
                         txn |-> PlaidTransaction(object, items)]]

\* the for loop takes the next object of plaidAccounts and sends its request
Visit(r, account, stored) ==
    IF r.route = "sync"
    THEN [r EXCEPT !.pc = "fetch", !.next = @ + 1, !.account = account,
                   !.visited = Append(@, account.id),
                   !.asked = account.excluded.ids,
                   !.sent = [cursor |-> CursorOrEmpty(account.cursor),
                             stored |-> stored[account.id]]]
    ELSE [r EXCEPT !.pc = "page", !.next = @ + 1, !.account = account,
                   !.visited = Append(@, account.id),
                   !.offset = 0, !.pages = 1, !.asked = account.excluded.ids,
                   !.excl = [live |-> account.excluded.defined, ids |-> {}]]

RemoveAt(s, k) == SubSeq(s, 1, k - 1) \o SubSeq(s, k + 1, Len(s))

PlaidResponse(r, status) ==
    [route |-> r.route, status |-> status, target |-> r.account.id, removed |-> {},
     invalidation |-> "none", count |-> r.count, missed |-> r.missed,
     barred |-> r.barred, last |-> r.last, errors |-> r.errors,
     visited |-> r.visited]

\* sync and transactions/get after the body of one loop pass: the next object is
\* visited, or the registry is saved and the response sent
PlaidContinue(reqs, k, r, accounts, stored) ==
    /\ plaidAccounts' = accounts
    /\ cursorStored' = stored
    /\ IF r.next > Len(accounts)
       THEN /\ plaidReqs' = RemoveAt(reqs, k)
            /\ plaidStore' = savePlaidTokens(plaidStore, accounts)
            /\ plaidRes' = PlaidResponse(r, 200)
       ELSE /\ plaidReqs' = [reqs EXCEPT ![k] = Visit(r, accounts[r.next], stored)]
            /\ UNCHANGED <<plaidStore, plaidRes>>
    /\ UNCHANGED <<supabase, ledgerVars, aggregation>>

\* what the upstream can send for items: nothing, or items on one account
ItemBatches ==
    { [n |-> 0, account_id |-> "x", amount |-> 5] }
    \cup { [n |-> 1, account_id |-> a, amount |-> v] : a \in AccountIds, v \in Amounts }

\* replies to transactions/sync: a failed fetch, an error_code, or added items
\* with a next_cursor at or after the cursor sent
SyncReplies(r) ==
    { [kind |-> k, added |-> [n |-> 0, account_id |-> "x", amount |-> 5],
       next_cursor |-> 0] : k \in {"throws", "error_code"} }
    \cup { [kind |-> "ok", added |-> b, next_cursor |-> c] :
             b \in ItemBatches,
             c \in { d \in 1..MaxCursor : r.sent.cursor <= d /\ d <= r.sent.cursor + 1 } }

\* the body of the sync loop after `await syncResponse.json()`
OnSyncReply(k, r, reply) ==
    IF reply.kind # "ok"
    THEN PlaidContinue(plaidReqs, k, [r EXCEPT !.errors = @ + 1], plaidAccounts,
                       cursorStored)
    ELSE LET object == ObjectOf(plaidAccounts, r)
             i == findAccountIndex(plaidAccounts, r.account.id)
             r2 == Ingest(r, object, OrEmptyArray(object.excluded).ids, reply.added)
         IN PlaidContinue(plaidReqs, k, r2,
                IF i = 0 THEN plaidAccounts
                ELSE [plaidAccounts EXCEPT ![i].cursor = reply.next_cursor],
                [cursorStored EXCEPT ![r.account.id] = reply.next_cursor])

\* replies to transactions/get that the loop can leave behind: a failed fetch,
\* an error_code, or n items with the total the upstream reports
PageReplies ==
    { [kind |-> k, items |-> [n |-> 0, account_id |-> "x", amount |-> 5],
       total |-> Undefined] : k \in {"throws", "error_code"} }
    \cup { [kind |-> "ok", items |-> [n |-> 0, account_id |-> "x", amount |-> 5],
            total |-> t] : t \in {Undefined, 0} }
    \cup { [kind |-> "ok", items |-> b, total |-> t] :
             b \in { c \in ItemBatches : c.n = 1 }, t \in {1, 2} }
    \cup { [kind |-> "ok", items |-> [n |-> PlaidCount, account_id |-> "x", amount |-> 5],
            total |-> PlaidSafetyLimit + PlaidCount] }

\* replies of an upstream that never lets the loop see the end: a page without
\* items, or a full page, each with a total beyond every offset
EndlessReplies ==
    { [kind |-> "ok", items |-> [n |-> n, account_id |-> "x", amount |-> 5],
       total |-> PlaidSafetyLimit + PlaidCount] : n \in {0, PlaidCount} }

\* offset < txnData.total_transactions
OffsetBelow(offset, total) == total # Undefined /\ offset < total

\* the body of the transactions/get while loop after `await txnResponse.json()`
OnPageReply(k, r, reply) ==
    IF reply.kind # "ok"
    THEN PlaidContinue(plaidReqs, k, [r EXCEPT !.errors = @ + 1], plaidAccounts,
                       cursorStored)
    ELSE LET object == ObjectOf(plaidAccounts, r)
             r2 == Ingest(r, object, ExcludedAccounts(plaidAccounts, r), reply.items)
             offset == r.offset + reply.items.n
             hasMore == OffsetBelow(offset, reply.total)
         IN IF hasMore /\ ~ (offset >= PlaidSafetyLimit)
            THEN /\ plaidReqs' = [plaidReqs EXCEPT
                                    ![k] = [r2 EXCEPT !.offset = offset, !.pages = @ + 1,
                                                      !.asked = object.excluded.ids]]
                 /\ UNCHANGED <<supabase, plaidAccounts, plaidStore, plaidRes,
                                cursorStored, ledgerVars, aggregation>>
            ELSE PlaidContinue(plaidReqs, k, r2, plaidAccounts, cursorStored)

\* the toggle of one account: institution.excluded_accounts after the handler
Toggled(excluded, account_id, exclude) ==
    [defined |-> TRUE,
     ids |-> IF exclude THEN excluded.ids \cup {account_id}
             ELSE excluded.ids \ {account_id}]

\* a transactions/get loop whose excludedAccounts is the array that the toggle
\* replaces keeps the replaced array
KeepReplacedArray(q, id, excluded, exclude) ==
    IF q.route = "transactions" /\ q.account.id = id /\ q.excl.live /\ ~ exclude
    THEN [q EXCEPT !.excl = [live |-> FALSE, ids |-> excluded.ids]]
    ELSE q

\* handlers that hold an object the splice removed keep it as it was
KeepRemoved(q, removed) ==
    IF q.pc # "start" /\ q.account.id = removed.id
    THEN [q EXCEPT !.account = removed] ELSE q

\* --------------------------------------------------------------- actions
\* Date.now() advances
Tick ==
    /\ now < MaxNow
    /\ now' = now + 1
    /\ UNCHANGED <<learnedRules, lastSave, tokens, anthropic, categoryCache, req, res>>
    /\ UNCHANGED <<plaidVars, aggregation>>

\* POST /api/quickbooks/learn-rule with one request body and one disk outcome
LearnRuleWith(pattern, pt, c, writeOk) ==
        LET patternType == DefaultPatternType(pt)
            rules2 == Teach(learnedRules, pattern, patternType, c.id, c.name, now)
        IN /\ Len(rules2) <= MaxRules
           /\ \A i \in 1..Len(rules2) : rules2[i].timesUsed <= MaxTimesUsed
           /\ learnedRules' = rules2
           /\ lastSave' = saveRules(writeOk)
           /\ res' = [route |-> "learn-rule",
                      body |-> LearnRuleResponse(lastSave', Len(rules2)),
                      txns |-> <<>>, trace |-> <<>>, tokenMissing |-> FALSE]
           /\ UNCHANGED <<now, tokens, anthropic, categoryCache, req>>
           /\ UNCHANGED <<plaidVars, aggregation>>

LearnRule ==
    \E pattern \in Patterns, pt \in PatternTypes, c \in Categories, writeOk \in BOOLEAN :
        LearnRuleWith(pattern, pt, c, writeOk)

\* DELETE /api/quickbooks/rules/:id
DeleteRule ==
    \E id \in 0..MaxNow, writeOk \in BOOLEAN :
        /\ learnedRules' = FilterOutId(learnedRules, id)
        /\ lastSave' = saveRules(writeOk)
        /\ res' = [route |-> "delete-rule",
                   body |-> DeleteRuleResponse(lastSave'),
                   txns |-> <<>>, trace |-> <<>>, tokenMissing |-> FALSE]
        /\ UNCHANGED <<now, tokens, anthropic, categoryCache, req>>
        /\ UNCHANGED <<plaidVars, aggregation>>

\* a handler segment sets the request, the response and the cache
Apply(out) ==
    /\ req' = out.req
    /\ res' = out.res
    /\ categoryCache' = out.cache
    /\ UNCHANGED <<now, learnedRules, lastSave, tokens, anthropic>>
    /\ UNCHANGED <<plaidVars, aggregation>>

\* POST /api/quickbooks/categorize arrives
Categorize ==
    /\ req = Idle
    /\ \E txn \in Txns : Apply(CategorizeStart(txn))

\* POST /api/quickbooks/categorize-batch arrives
CategorizeBatch ==
    /\ req = Idle
    /\ \E txns \in Batches : Apply(BatchStart(txns))

\* anthropic.messages.create settles
ClassifierReplies ==
    /\ req.pc = "ai"
    /\ \E reply \in AIReplies : Apply(OnClassifierReply(req, reply))

\* the fetch of a /query page settles
PageArrives ==
    /\ req.pc = "fetch"
    /\ \E page \in PageResponses :
          /\ page.n = maxResults => req.fetch.pages < MaxFullPages
          /\ (~ page.ok /\ req.route \in {"data", "refresh"})
                => Len(req.trace) < MaxFailures
          /\ Apply(OnPage(req, page))

\* the fetch of a /query page settles at an upstream that only sends full pages
EndlessQueryArrives ==
    /\ req.pc = "fetch"
    /\ req.fetch.pages < MaxPageRequests
    /\ Apply(OnPage(req, [ok |-> TRUE, n |-> maxResults, expense |-> 1]))

\* GET /api/quickbooks/categories arrives
GetCategories ==
    /\ req = Idle
    /\ Apply(CategoriesStart)

\* GET /api/quickbooks/data or POST /api/quickbooks/refresh arrives
GetData ==
    /\ req = Idle
    /\ \E route \in {"data", "refresh"} : Apply(DataStart(route))

\* the fetch of the ProfitAndLoss report settles
ReportArrives ==
    /\ req.pc = "report"
    /\ \E ok \in BOOLEAN : Apply(OnReport(req, ok))

\* POST /api/quickbooks/update-transaction arrives
UpdateTransaction ==
    /\ req = Idle
    /\ Apply(UpdateStart)

\* the SELECT of update-transaction settles
SelectArrives ==
    /\ req.pc = "select"
    /\ \E ok \in BOOLEAN, found \in BOOLEAN : Apply(OnSelect(req, ok, found))

\* the update call of update-transaction settles
UpdateArrives ==
    /\ req.pc = "update"
    /\ \E ok \in BOOLEAN : Apply(OnUpdate(req, ok))

\* POST /api/quickbooks/disconnect: tokens = { access_token: null, ... }
Disconnect ==
    /\ tokens' = FALSE
    /\ req' = IF req = Idle THEN req ELSE [req EXCEPT !.tokenMissing = TRUE]
    /\ UNCHANGED <<now, learnedRules, lastSave, anthropic, categoryCache, res>>
    /\ UNCHANGED <<plaidVars, aggregation>>


\* -------------------------------------------------------- bank-feed actions
\* the number of handlers of these routes that wait for an upstream reply
InFlight(routes) ==
    Cardinality({ k \in 1..Len(plaidReqs) : plaidReqs[k].route \in routes })

\* a handler of sync or transactions/get up to its first await
PlaidStart(route, emptyStatus) ==
    /\ InFlight({"sync", "transactions"}) < MaxFetches
    /\ IF Len(plaidAccounts) = 0
       THEN /\ plaidRes' = PlaidResponse(NewPlaidRequest(route), emptyStatus)
            /\ UNCHANGED <<supabase, plaidAccounts, plaidStore, plaidReqs,
                           cursorStored, ledgerVars, aggregation>>
       ELSE /\ plaidAccounts' = plaidAccounts
            /\ plaidReqs' = Append(plaidReqs, Visit(NewPlaidRequest(route),
                                                    plaidAccounts[1], cursorStored))
            /\ plaidRes' = NoPlaidResponse
            /\ UNCHANGED <<supabase, plaidStore, cursorStored, ledgerVars, aggregation>>

\* POST /api/plaid/sync arrives
PlaidSync == PlaidStart("sync", 400)

\* GET /api/plaid/transactions arrives
PlaidTransactions == PlaidStart("transactions", 200)

\* the fetch of transactions/sync settles
SyncReplyArrives ==
    \E k \in 1..Len(plaidReqs) :
        /\ plaidReqs[k].pc = "fetch"
        /\ \E reply \in SyncReplies(plaidReqs[k]) : OnSyncReply(k, plaidReqs[k], reply)

\* the fetch of transactions/get settles
PageReplyArrives ==
    \E k \in 1..Len(plaidReqs) :
        /\ plaidReqs[k].pc = "page"
        /\ \E reply \in PageReplies :
              /\ reply.items.n = PlaidCount => plaidReqs[k].pages <= MaxFullPages
              /\ OnPageReply(k, plaidReqs[k], reply)

\* the fetch of transactions/get settles at an upstream that never ends
EndlessPageArrives ==
    \E k \in 1..Len(plaidReqs) :
        /\ plaidReqs[k].pc = "page"
        /\ plaidReqs[k].pages < MaxPageRequests
        /\ \E reply \in EndlessReplies : OnPageReply(k, plaidReqs[k], reply)

\* POST /api/plaid/toggle-account
ToggleAccount ==
    \E id \in 1..MaxConnections, account_id \in AccountIds, exclude \in BOOLEAN :
        LET i == findAccountIndex(plaidAccounts, id)
            accounts == [plaidAccounts EXCEPT
                           ![i].excluded = Toggled(@, account_id, exclude)]
        IN IF i = 0
           THEN /\ plaidRes' = [NoPlaidResponse EXCEPT !.route = "toggle-account",
                                                       !.status = 404, !.target = id]
                /\ UNCHANGED <<supabase, plaidAccounts, plaidStore, plaidReqs,
                               cursorStored, ledgerVars, aggregation>>
           ELSE /\ plaidAccounts' = accounts
                /\ plaidReqs' = [q \in 1..Len(plaidReqs) |->
                                   KeepReplacedArray(plaidReqs[q], id,
                                                     plaidAccounts[i].excluded, exclude)]
                /\ plaidStore' = savePlaidTokens(plaidStore, accounts)
                /\ plaidRes' = [NoPlaidResponse EXCEPT !.route = "toggle-account",
                                                       !.status = 200, !.target = id]
                /\ UNCHANGED <<supabase, cursorStored, ledgerVars, aggregation>>

\* POST /api/plaid/disconnect arrives: findIndex, then the await of item/remove
PlaidDisconnect ==
    /\ InFlight({"disconnect"}) < MaxDisconnects
    /\ \E id \in 1..MaxConnections :
          LET accountIndex == findAccountIndex(plaidAccounts, id)
          IN IF accountIndex = 0
             THEN /\ plaidRes' = [NoPlaidResponse EXCEPT !.route = "disconnect",
                                                         !.status = 404, !.target = id]
                  /\ UNCHANGED <<supabase, plaidAccounts, plaidStore, plaidReqs,
                                 cursorStored, ledgerVars, aggregation>>
             ELSE /\ plaidReqs' = Append(plaidReqs,
                                    [NewPlaidRequest("disconnect") EXCEPT
                                       !.pc = "remove", !.accountIndex = accountIndex,
                                       !.account = plaidAccounts[accountIndex]])
                  /\ plaidRes' = NoPlaidResponse
                  /\ UNCHANGED <<supabase, plaidAccounts, plaidStore,
                                 cursorStored, ledgerVars, aggregation>>

\* the fetch of item/remove settles or fails: splice, save, delete row, respond
ItemRemoveSettles ==
    \E k \in 1..Len(plaidReqs), ok \in BOOLEAN :
        LET r == plaidReqs[k]
            accounts == splice(plaidAccounts, r.accountIndex)
            rest == RemoveAt(plaidReqs, k)
        IN /\ r.pc = "remove"
           /\ plaidAccounts' = accounts
           /\ plaidReqs' = IF r.accountIndex > Len(plaidAccounts) THEN rest
                           ELSE [q \in 1..Len(rest) |->
                                   KeepRemoved(rest[q], plaidAccounts[r.accountIndex])]
           /\ plaidStore' = deletePlaidTokenFromSupabase(
                                savePlaidTokens(plaidStore, accounts), r.account.id)
           /\ plaidRes' = [PlaidResponse(r, 200) EXCEPT
                             !.removed = IdsOf(plaidAccounts) \ IdsOf(accounts),
                             !.invalidation = IF ok THEN "ok" ELSE "failed"]
           /\ UNCHANGED <<supabase, cursorStored, ledgerVars, aggregation>>

\* the process is restarted: start() runs loadPlaidTokens, handlers in flight die
Restart ==
    /\ plaidAccounts' = loadPlaidTokens(plaidStore).accounts
    /\ plaidStore' = loadPlaidTokens(plaidStore).store
    /\ plaidReqs' = <<>>
    /\ plaidRes' = NoPlaidResponse
    /\ UNCHANGED <<supabase, cursorStored, ledgerVars, aggregation>>

\* the server after start() with no rules file
Init ==
    /\ now = 0
    /\ learnedRules = <<>>
    /\ lastSave = "none"
    /\ tokens = FALSE
    /\ anthropic = FALSE
    /\ categoryCache = EmptyCache
    /\ req = Idle
    /\ res = NoResponse
    /\ NoBankFeed

Next == Tick \/ LearnRule \/ DeleteRule

Spec == Init /\ [][Next]_vars

\* ------------------------------------------------- the resolver at work
\* rules that loadRules can read from learned_rules.json: any pattern, match
\* mode and confidence, the confidence possibly missing
LoadedPatterns ==
    { [pattern |-> <<"A">>, patternType |-> "contains"],
      [pattern |-> <<"a", " ">>, patternType |-> "exact"],
      [pattern |-> <<"a">>, patternType |-> "starts_with"] }

LoadedConfidences == { Undefined, 0, 50, 95 }

LoadedRule(id, p, confidence) ==
    [id |-> id, pattern |-> p.pattern, patternType |-> p.patternType,
     categoryId |-> id + 1, categoryName |-> IF id = 0 THEN "n1" ELSE "n2",
     confidence |-> confidence, timesUsed |-> 1, createdAt |-> 0,
     updatedAt |-> Undefined]

LoadedRules ==
    {<<>>}
    \cup { <<LoadedRule(0, p, c)>> : p \in LoadedPatterns, c \in LoadedConfidences }
    \cup { <<LoadedRule(0, p[1], c[1]), LoadedRule(1, p[2], c[2])>> :
             p \in LoadedPatterns \X LoadedPatterns,
             c \in LoadedConfidences \X LoadedConfidences }

\* the cache after start(): untouched without a token, else what the startup
\* fetchAndCacheCategories found
StartupCaches(connected) ==
    IF connected
    THEN { [categories |-> n, lastFetched |-> 0] : n \in 0..1 }
    ELSE { EmptyCache }

\* the server after start() with a rules file and possibly a token file
InitResolve ==
    /\ now = 0
    /\ learnedRules \in LoadedRules
    /\ lastSave = "none"
    /\ tokens \in BOOLEAN
    /\ anthropic \in BOOLEAN
    /\ categoryCache \in StartupCaches(tokens)
    /\ req = Idle
    /\ res = NoResponse
    /\ NoBankFeed

NextResolve == Categorize \/ CategorizeBatch \/ ClassifierReplies \/ PageArrives

SpecResolve == InitResolve /\ [][NextResolve]_vars

\* ------------------------------------------- ledger requests and disconnect
\* the server after start() with a token file and no rules file
InitLedger ==
    /\ now = 0
    /\ learnedRules = <<>>
    /\ lastSave = "none"
    /\ tokens \in BOOLEAN
    /\ anthropic \in BOOLEAN
    /\ categoryCache \in StartupCaches(tokens)
    /\ req = Idle
    /\ res = NoResponse
    /\ NoBankFeed

NextLedger ==
    \/ Categorize \/ CategorizeBatch \/ ClassifierReplies \/ PageArrives
    \/ GetCategories \/ GetData \/ ReportArrives
    \/ UpdateTransaction \/ SelectArrives \/ UpdateArrives
    \/ Disconnect \/ EndlessQueryArrives

SpecLedger == InitLedger /\ [][NextLedger]_vars

\* ------------------------------------------------ one confident rule at work
\* the single rule learned_rules.json holds: pattern "a" in each match mode
MatchPatterns ==
    { [pattern |-> <<"a">>, patternType |-> pt] : pt \in {"exact", "starts_with", "contains"} }

\* the server after start() with a token file and a rules file of one rule of
\* confidence 0.95
InitMatch ==
    /\ now = 0
    /\ learnedRules \in { <<LoadedRule(0, p, 95)>> : p \in MatchPatterns }
    /\ lastSave = "none"
    /\ tokens = TRUE
    /\ anthropic \in BOOLEAN
    /\ categoryCache = [categories |-> 1, lastFetched |-> 0]
    /\ req = Idle
    /\ res = NoResponse
    /\ NoBankFeed

NextMatch == Categorize \/ CategorizeBatch \/ ClassifierReplies

SpecMatch == InitMatch /\ [][NextMatch]_vars

\* ------------------------------------------------- the category list ageing
\* more than the staleness threshold passes without a request
HourPasses ==
    /\ now <= MaxNow
    /\ now' = now + StaleAfter + 1
    /\ UNCHANGED <<learnedRules, lastSave, tokens, anthropic, categoryCache, req, res>>
    /\ UNCHANGED <<plaidVars, aggregation>>

\* the server after start() with a token file and a classifier key
InitStale ==
    /\ now = 0
    /\ learnedRules = <<>>
    /\ lastSave = "none"
    /\ tokens = TRUE
    /\ anthropic = TRUE
    /\ categoryCache \in StartupCaches(TRUE)
    /\ req = Idle
    /\ res = NoResponse
    /\ NoBankFeed

NextStale ==
    \/ HourPasses \/ GetCategories \/ PageArrives
    \/ Categorize \/ CategorizeBatch \/ ClassifierReplies

SpecStale == InitStale /\ [][NextStale]_vars

\* -------------------------------------------- teaching while requests scan
\* the transactions the requests of this specification carry
ScanTxns == { txn \in Txns : txn.id = 1 }

\* learn-rule with a body that names a contains pattern, saved
TeachSaved ==
    \E pattern \in Patterns, c \in Categories :
        LearnRuleWith(pattern, "contains", c, TRUE)

\* POST /api/quickbooks/categorize arrives with one of ScanTxns
CategorizeOne ==
    /\ req = Idle
    /\ \E txn \in ScanTxns : Apply(CategorizeStart(txn))

\* POST /api/quickbooks/categorize-batch arrives with some of ScanTxns
CategorizeSome ==
    /\ req = Idle
    /\ \E txns \in { b \in Batches : \A i \in DOMAIN b : b[i] \in ScanTxns } :
          Apply(BatchStart(txns))

\* the server after start() with a token file, a classifier key and a rules
\* file of at most one rule
InitConcurrent ==
    /\ now = 0
    /\ learnedRules \in
          {<<>>} \cup { <<LoadedRule(0, p, 50)>> :
                           p \in { q \in LoadedPatterns : q.patternType = "contains" } }
    /\ lastSave = "none"
    /\ tokens = TRUE
    /\ anthropic = TRUE
    /\ categoryCache = [categories |-> 1, lastFetched |-> 0]
    /\ req = Idle
    /\ res = NoResponse
    /\ NoBankFeed

NextConcurrent ==
    \/ TeachSaved \/ DeleteRule
    \/ CategorizeOne \/ CategorizeSome \/ ClassifierReplies

SpecConcurrent == InitConcurrent /\ [][NextConcurrent]_vars

\* ---------------------------------------------------- the normalizer at work
\* fetchFinancialData begins: nothing fetched yet
AggregationStarts ==
    /\ tokens
    /\ aggregation.pc \in {"idle", "done"}
    /\ aggregation' = [NoAggregation EXCEPT !.pc = "records"]
    /\ UNCHANGED <<ledgerVars, plaidVars>>

\* a page of an entity type delivers a record; the queries carry no ORDERBY,
\* so a record can come again on a later page
RecordArrives ==
    /\ aggregation.pc = "records"
    /\ Len(aggregation.allRecords) < MaxRecords
    /\ \E r \in RawRecords :
          /\ \A k \in 1..Len(aggregation.allRecords) :
                LET held == aggregation.allRecords[k]
                IN (held.kind = r.kind /\ held.Id = r.Id) => held = r
          /\ aggregation' =
                [aggregation EXCEPT !.allRecords = Append(@, r)]
    /\ UNCHANGED <<ledgerVars, plaidVars>>

\* the Account fetch settles, with the chart or (after a failed query) with
\* nothing, and the records are normalized
AccountsArrive ==
    /\ aggregation.pc = "records"
    /\ \E accountRecords \in {Chart, {}} :
          aggregation' =
              [aggregation EXCEPT
                  !.pc = "done",
                  !.accountRecords = accountRecords,
                  !.transactions = Normalize(aggregation.allRecords, accountRecords)]
    /\ UNCHANGED <<ledgerVars, plaidVars>>

\* the server after start() with a token file
InitNormalize ==
    /\ now = 0
    /\ learnedRules = <<>>
    /\ lastSave = "none"
    /\ tokens = TRUE
    /\ anthropic = FALSE
    /\ categoryCache \in StartupCaches(TRUE)
    /\ req = Idle
    /\ res = NoResponse
    /\ NoBankFeed

NextNormalize == AggregationStarts \/ RecordArrives \/ AccountsArrive

SpecNormalize == InitNormalize /\ [][NextNormalize]_vars

\* ------------------------------------------------------ the bank feed at work
\* plaid_tokens.json after n exchange-token requests, and the rows Supabase
\* holds for them
LinkedStore(n) ==
    LET file == [i \in 1..n |-> newAccount(i)]
    IN [rows |-> IF supabase THEN { UpsertRow(file[i]) : i \in 1..n } ELSE {},
        file |-> file]

\* the server after start() with up to `most` institutions linked by earlier runs
Linked(most) ==
    /\ now = 0
    /\ learnedRules = <<>>
    /\ lastSave = "none"
    /\ tokens = FALSE
    /\ anthropic = FALSE
    /\ categoryCache = EmptyCache
    /\ req = Idle
    /\ res = NoResponse
    /\ supabase \in BOOLEAN
    /\ \E n \in 0..most :
          /\ plaidStore = LinkedStore(n)
          /\ plaidAccounts = loadPlaidTokens(LinkedStore(n)).accounts
    /\ plaidReqs = <<>>
    /\ plaidRes = NoPlaidResponse
    /\ cursorStored = [id \in 1..MaxConnections |-> 0]
    /\ aggregation = NoAggregation

InitPlaid == Linked(1)

NextPlaid ==
    \/ PlaidSync \/ PlaidTransactions \/ SyncReplyArrives \/ PageReplyArrives
    \/ ToggleAccount \/ Restart

SpecPlaid == InitPlaid /\ [][NextPlaid]_vars

\* ------------------------------------------------ endless upstream pages
\* the server after start() with one linked institution
InitPaging ==
    /\ Linked(1)
    /\ Len(plaidAccounts) = 1

NextPaging == PlaidTransactions \/ PageReplyArrives \/ EndlessPageArrives

SpecPaging == InitPaging /\ [][NextPaging]_vars

\* ------------------------------------------- disconnects while a sync runs
NextDisconnect ==
    PlaidSync \/ SyncReplyArrives \/ PlaidDisconnect \/ ItemRemoveSettles

InitDisconnect == Linked(MaxConnections)

SpecDisconnect == InitDisconnect /\ [][NextDisconnect]_vars

\* ------------------------------------------------------------ rule store claims
\* the indexes of the rules stored for the pair (lower-cased pattern, patternType)
RulesForPair(rules, pattern, patternType) ==
    { i \in 1..Len(rules) :
        /\ toLowerCase(rules[i].pattern) = toLowerCase(pattern)
        /\ rules[i].patternType = patternType }

\* C1: after any sequence of learn-rule and delete-rule requests from an empty
\* store, no two stored Rules share the pair (lower-cased pattern, patternType).
C1_OneRulePerPair ==
    \A i, j \in 1..Len(learnedRules) :
        i # j => ~ ( /\ toLowerCase(learnedRules[i].pattern) = toLowerCase(learnedRules[j].pattern)
                     /\ learnedRules[i].patternType = learnedRules[j].patternType )

\* a pair was taught again (in the other letter case) next to a second rule
C1_Witness ==
    /\ Len(learnedRules) = 2
    /\ \E i \in 1..2 : /\ learnedRules[i].timesUsed = 2
                        /\ learnedRules[i].pattern = <<"A">>

\* what a teach of (pattern, patternType, c) must have done to the store
TeachPost(pattern, patternType, c) ==
    LET old == RulesForPair(learnedRules, pattern, patternType)
        n == Len(learnedRules)
    IN IF old # {}
       THEN /\ Len(learnedRules') = n
            /\ Cardinality(RulesForPair(learnedRules', pattern, patternType)) = 1
            /\ \A i \in 1..n :
                  IF i \in old
                  THEN /\ learnedRules'[i].categoryId = c.id
                       /\ learnedRules'[i].categoryName = c.name
                       /\ learnedRules'[i].timesUsed = learnedRules[i].timesUsed + 1
                       /\ learnedRules'[i].updatedAt = now
                       /\ learnedRules[i].timesUsed = 1 => learnedRules'[i].timesUsed = 2
                  ELSE learnedRules'[i] = learnedRules[i]
       ELSE /\ Len(learnedRules') = n + 1
            /\ SubSeq(learnedRules', 1, n) = learnedRules
            /\ learnedRules'[n + 1].confidence = 100
            /\ learnedRules'[n + 1].timesUsed = 1
            /\ learnedRules'[n + 1].categoryId = c.id
            /\ learnedRules'[n + 1].categoryName = c.name

\* C2: a teach on an existing pair overwrites categoryId and categoryName, adds
\* exactly one to timesUsed (1 becomes 2), sets updatedAt and keeps the number of
\* rules; a teach on a new pair appends one Rule with confidence 1.0, timesUsed 1.
C2_TeachEffect ==
    [][ \A pattern \in Patterns, pt \in PatternTypes, c \in Categories, writeOk \in BOOLEAN :
            LearnRuleWith(pattern, pt, c, writeOk)
                => TeachPost(pattern, IF pt = "absent" THEN "contains" ELSE pt, c) ]_vars

\* teach(p, t, c1) at time 0 was followed by teach(p, t, c2) at time 1
C2_Witness ==
    \E i \in 1..Len(learnedRules) :
        /\ learnedRules[i].timesUsed = 2
        /\ learnedRules[i].createdAt = 0
        /\ learnedRules[i].updatedAt = 1
        /\ learnedRules[i].categoryId = 2
        /\ learnedRules[i].categoryName = "n2"

\* C3: a teach or delete whose disk write failed is answered with an error, never
\* with success.
C3_FailedWriteIsReported ==
    (res.route \in {"learn-rule", "delete-rule"} /\ lastSave = "failed")
        => (res.body.status # 200 /\ ~ res.body.success)


\* ------------------------------------------------------------ resolver claims
\* the transactions a resolver response answers, one per trace entry
Answered ==
    IF res.route \in {"categorize", "categorize-batch"} /\ res.body.status = 200
    THEN 1..Len(res.trace) ELSE {}

\* the suggestion and the approval the response carries for answered item k
SuggestionOf(k) ==
    IF res.route = "categorize" THEN res.body.suggestion
    ELSE res.body.results[k].suggestion

ApprovedOf(k) ==
    IF res.route = "categorize" THEN res.body.autoApproved
    ELSE res.body.results[k].autoApproved

\* the position of the first rule of the store that matches the transaction's
\* search key, 0 when no rule matches
FirstMatch(rules, txn) ==
    LET key == searchText(txn.description, txn.vendor)
        hits == { i \in 1..Len(rules) : RuleMatches(rules[i], key) }
    IN IF hits = {} THEN 0 ELSE CHOOSE i \in hits : \A j \in hits : i <= j

\* the stored rule presented as a suggestion, confidence as stored
StoredAsSuggestion(rule) ==
    [categoryId |-> rule.categoryId, categoryName |-> rule.categoryName,
     confidence |-> rule.confidence, source |-> "learned_rule", ruleId |-> rule.id]

\* the classifier produced a result: its reply held a JSON object
Produced(e) ==
    e.classified = "called" /\ ~ e.reply.throws /\ e.reply.braces /\ e.reply.parses

\* the classifier was asked and failed, or its output was not parsable
ClassifierFailed(e) ==
    e.classified = "called" /\ (e.reply.throws \/ ~ e.reply.braces \/ ~ e.reply.parses)

\* C4: in the single and the batch resolver, a transaction whose first matching
\* Rule has confidence >= 0.95 is answered with that Rule, autoApproved = true,
\* and the classifier is not invoked for it.
C4_ConfidentRuleShortCircuits ==
    /\ \A k \in Answered :
          LET e == res.trace[k]
              m == FirstMatch(e.rules, e.txn)
          IN (m # 0 /\ e.rules[m].confidence >= 95)
                => /\ SuggestionOf(k) = StoredAsSuggestion(e.rules[m])
                   /\ ApprovedOf(k)
                   /\ e.classified = "skipped"
    /\ (req.route \in {"categorize", "categorize-batch"})
          => \A k \in 1..Len(req.trace) :
                LET e == req.trace[k]
                    m == FirstMatch(e.rules, e.txn)
                IN (m # 0 /\ e.rules[m].confidence >= 95) => e.classified = "skipped"

\* a batch answered its second transaction from a rule of confidence 0.95 that is
\* second in the store, after the classifier was called for the first transaction
C4_Witness ==
    /\ res.route = "categorize-batch"
    /\ res.body.status = 200
    /\ Len(res.body.results) = 2
    /\ res.trace[1].classified = "called"
    /\ res.trace[2].classified = "skipped"
    /\ res.body.results[2].autoApproved
    /\ res.body.results[2].suggestion.ruleId = 1
    /\ res.body.results[2].suggestion.confidence = 95

\* C5: autoApproved = true only with a Rule suggestion of confidence >= 0.95; a
\* suggestion whose source is the classifier has autoApproved = false whatever
\* confidence it reports.
C5_OnlyRulesAutoApprove ==
    \A k \in Answered :
        /\ ApprovedOf(k) => /\ SuggestionOf(k).source = "learned_rule"
                            /\ SuggestionOf(k).confidence >= 95
        /\ SuggestionOf(k).source = "ai" => ~ ApprovedOf(k)

\* a classifier suggestion of confidence 1.0 that names itself a learned rule was
\* returned as source "ai" and not approved
C5_Witness ==
    /\ res.route = "categorize"
    /\ res.body.status = 200
    /\ res.body.suggestion.source = "ai"
    /\ res.body.suggestion.confidence = 100
    /\ res.trace[1].reply.obj.source = "learned_rule"
    /\ ~ res.body.autoApproved

\* C6: a matched Rule whose stored confidence is below 0.95 is never
\* auto-approved and the classifier is still attempted for the transaction.
C6_LowConfidenceRuleIsFallback ==
    \A k \in Answered :
        LET e == res.trace[k]
            m == FirstMatch(e.rules, e.txn)
        IN (m # 0 /\ e.rules[m].confidence # Undefined /\ e.rules[m].confidence < 95)
              => (~ ApprovedOf(k) /\ e.classified # "skipped")

\* C7: when no Rule auto-approves, the suggestion is the classifier result if it
\* produced one, else the fallback Rule match, else none; a classifier failure
\* or unparsable output never gives an error response.
C7_FinalSuggestion ==
    /\ res.route \in {"categorize", "categorize-batch"} => res.body.status # 500
    /\ \A k \in Answered :
          LET e == res.trace[k]
              m == FirstMatch(e.rules, e.txn)
          IN ~ ApprovedOf(k) =>
               IF Produced(e)
               THEN /\ SuggestionOf(k).source = "ai"
                    /\ SuggestionOf(k).categoryId = e.reply.obj.categoryId
                    /\ SuggestionOf(k).categoryName = e.reply.obj.categoryName
                    /\ SuggestionOf(k).confidence = e.reply.obj.confidence
               ELSE IF m # 0
               THEN /\ SuggestionOf(k).source = "learned_rule"
                    /\ SuggestionOf(k).ruleId = e.rules[m].id
               ELSE SuggestionOf(k) = Null

\* the classifier's output was not parsable and the answer is the fallback rule
C7_Witness ==
    /\ res.route = "categorize"
    /\ res.body.status = 200
    /\ res.trace[1].classified = "called"
    /\ res.trace[1].reply.braces /\ ~ res.trace[1].reply.parses
    /\ res.body.suggestion.source = "learned_rule"
    /\ res.body.suggestion.confidence = 50
    /\ ~ res.body.autoApproved

\* C8: the Rule a response or a pending request carries is the first Rule of the
\* store, in store order, that matches the transaction.
C8_FirstMatchWins ==
    /\ \A k \in Answered :
          LET e == res.trace[k]
              m == FirstMatch(e.rules, e.txn)
          IN SuggestionOf(k).source = "learned_rule"
                => (m # 0 /\ SuggestionOf(k).ruleId = e.rules[m].id
                           /\ SuggestionOf(k).categoryId = e.rules[m].categoryId)
    /\ (req.route \in {"categorize", "categorize-batch"} /\ req.pc = "ai")
          => LET e == req.trace[Len(req.trace)]
                 m == FirstMatch(e.rules, e.txn)
             IN IF m = 0 THEN IsNull(req.ruleMatch)
                ELSE req.ruleMatch.source = "learned_rule"
                     /\ req.ruleMatch.ruleId = e.rules[m].id

\* a contains rule of confidence 0.5 stored first won over an exact rule of
\* confidence 0.95 stored second, both matching the transaction
C8_Witness ==
    /\ res.route = "categorize"
    /\ res.body.status = 200
    /\ Len(res.trace[1].rules) = 2
    /\ res.trace[1].rules[1].patternType = "contains"
    /\ res.trace[1].rules[1].confidence = 50
    /\ res.trace[1].rules[2].patternType = "exact"
    /\ res.trace[1].rules[2].confidence = 95
    /\ RuleMatches(res.trace[1].rules[2],
                   searchText(res.trace[1].txn.description, res.trace[1].txn.vendor))
    /\ res.body.suggestion.source = "learned_rule"
    /\ res.body.suggestion.ruleId = 0

\* C9: a batch that passed authentication answers with one result per input
\* transaction, in input order, also when the classifier failed for an item; the
\* failed item carries no suggestion or the fallback Rule.
C9_BatchSurvivesClassifierFailure ==
    (res.route = "categorize-batch" /\ res.body.status # 401)
        => /\ res.body.status = 200
           /\ Len(res.body.results) = Len(res.txns)
           /\ Len(res.trace) = Len(res.txns)
           /\ \A k \in 1..Len(res.txns) :
                 /\ res.body.results[k].transactionId = res.txns[k].id
                 /\ res.trace[k].txn = res.txns[k]
                 /\ ClassifierFailed(res.trace[k])
                       => res.body.results[k].suggestion.source \in {"none", "learned_rule"}

\* the classifier threw for the first item and classified the second
C9_Witness ==
    /\ res.route = "categorize-batch"
    /\ res.body.status = 200
    /\ Len(res.txns) = 2
    /\ res.trace[1].reply.throws
    /\ res.body.results[1].suggestion = Null
    /\ res.body.results[2].suggestion.source = "ai"

\* ------------------------------------------------------------ ledger claims
AuthenticatedRoutes ==
    { "data", "refresh", "categories", "categorize", "categorize-batch",
      "update-transaction" }

\* C10: a request of an authenticated route during which no access token was
\* held (at its start, or after a disconnect while it ran) is answered with the
\* error "Not authenticated" and nothing else.
C10_NoTokenNoResult ==
    (res.route \in AuthenticatedRoutes /\ res.tokenMissing)
        => (res.body.status \in {401, 500} /\ res.body.error = "Not authenticated")

\* C11: an aggregation run in which the fetch of an entity type failed on any
\* page still answers with a result, and that entity type contributes no record.
C11_FailedTypeIsEmpty ==
    (res.route \in {"data", "refresh"} /\ Len(res.trace) > 0)
        => /\ res.body.status = 200
           /\ \A k \in 1..Len(res.trace) : res.trace[k].kept = 0

\* ------------------------------------------------------------ paging claims
\* the queries fetchAllRecords sends while startPosition stays within its limit
LedgerQueryBound == MaxStartPosition \div maxResults

\* C12: a ledger entity query loop sends at most 10 queries and a bank-feed
\* transactions/get loop at most 5000 page requests (one per item up to the
\* safety limit), whatever the upstream answers.
C12_PageRequestsBounded ==
    /\ req.pc = "fetch" => req.fetch.pages + 1 <= LedgerQueryBound
    /\ \A k \in 1..Len(plaidReqs) :
          plaidReqs[k].pc = "page" => plaidReqs[k].pages <= PlaidSafetyLimit

\* ---------------------------------------------------------- bank-feed claims
\* C13: once a sync has stored a cursor for a connection, every later
\* transactions/sync request for that connection carries that cursor or a later
\* one, never an earlier or the empty cursor, also after a restart that reloads
\* the registry from persistence.
C13_CursorNeverRewinds ==
    \A k \in 1..Len(plaidReqs) :
        plaidReqs[k].pc = "fetch"
            => plaidReqs[k].sent.cursor >= plaidReqs[k].sent.stored

\* C14: a disconnect that answers success has asked the upstream to invalidate
\* the credential (whether or not that request failed) and leaves the registry
\* without the connection it named; a disconnect of an unknown id answers 404 and
\* leaves the registry as it was.
C14_DisconnectRemoves ==
    [][ (plaidRes'.route = "disconnect" /\ plaidRes' # plaidRes)
          => IF plaidRes'.status = 200
             THEN /\ plaidRes'.invalidation \in {"ok", "failed"}
                  /\ plaidRes'.target \notin IdsOf(plaidAccounts')
             ELSE /\ plaidRes'.status = 404
                  /\ plaidRes'.target \notin IdsOf(plaidAccounts)
                  /\ plaidAccounts' = plaidAccounts ]_vars

\* what sync and transactions/get handlers have ingested: the handlers in
\* flight and the last response
Ingested ==
    { plaidReqs[k] : k \in { j \in 1..Len(plaidReqs) :
                                plaidReqs[j].route \in {"sync", "transactions"} } }
    \cup (IF plaidRes.route \in {"sync", "transactions"} THEN {plaidRes} ELSE {})

\* C15: sync and transactions/get make a Transaction for every upstream item
\* whose account is outside the connection's excluded set (from the request for
\* the item to its ingestion), and none for an account that is in the set.
C15_ExcludedAccountsFiltered ==
    \A h \in Ingested : h.missed = 0 /\ h.barred = 0

\* C16: a Transaction made from an upstream item of positive amount has a
\* negative amount and kind expense; one made from an item of negative amount
\* has a positive amount and kind income.
C16_SignConvention ==
    \A h \in Ingested :
        h.last.emitted
            => /\ h.last.item.amount > 0
                    => (h.last.txn.amount < 0 /\ h.last.txn.type = "expense")
               /\ h.last.item.amount < 0
                    => (h.last.txn.amount > 0 /\ h.last.txn.type = "income")

\* the positions of transactions that stem from records of r's kind and Id
EmittedFor(r) ==
    { j \in 1..Len(aggregation.transactions) :
        /\ aggregation.transactions[j].qbType = r.kind
        /\ aggregation.transactions[j].qbId = r.Id }

\* how many times r was delivered
Deliveries(r) ==
    Cardinality({ k \in 1..Len(aggregation.allRecords) : aggregation.allRecords[k] = r })

\* the lines of r that carry an account-based or item-based expense detail
QualifyingLines(r) ==
    { k \in 1..Len(r.Line) :
        r.Line[k].detail \in {"AccountBasedExpenseLineDetail", "ItemBasedExpenseLineDetail"} }

\* C17: a Purchase or Bill with at least one line carrying an account-based or
\* item-based expense detail yields one Transaction per such line and each has
\* amount below 0; a Purchase without such a line yields exactly one
\* whole-record Transaction flagged for review.
C17_OnePerQualifyingLine ==
    aggregation.pc = "done" =>
        \A k \in 1..Len(aggregation.allRecords) :
            LET r == aggregation.allRecords[k]
                lines == Cardinality(QualifyingLines(r))
            IN r.kind \in {"Purchase", "Bill"} =>
                 /\ lines >= 1 =>
                       /\ Cardinality(EmittedFor(r)) = lines * Deliveries(r)
                       /\ \A j \in EmittedFor(r) : aggregation.transactions[j].amount < 0
                 /\ (lines = 0 /\ r.kind = "Purchase") =>
                       /\ Cardinality(EmittedFor(r)) = Deliveries(r)
                       /\ \A j \in EmittedFor(r) :
                             /\ aggregation.transactions[j].id.idx = Undefined
                             /\ aggregation.transactions[j].needsReview

\* the accounts of the chart that are bank, asset or liability accounts
BalanceSheetAccounts ==
    { a.Id : a \in { c \in Chart : c.AccountType \in {"Bank", "Credit Card"} } }

\* C18: no Transaction stems from a journal line posted to a Bank, asset or
\* liability account.
C18_NoBalanceSheetLines ==
    aggregation.pc = "done" =>
        \A j \in 1..Len(aggregation.transactions) :
            LET t == aggregation.transactions[j]
            IN t.qbType = "JournalEntry" =>
                 \A k \in 1..Len(aggregation.allRecords) :
                     LET r == aggregation.allRecords[k]
                     IN (r.kind = "JournalEntry" /\ r.Id = t.qbId) =>
                           r.Line[t.id.idx + 1].AccountRef \notin BalanceSheetAccounts

\* C19: the Transactions of one aggregation run carry pairwise different ids.
C19_IdsUnique ==
    aggregation.pc = "done" =>
        \A i, j \in 1..Len(aggregation.transactions) :
            aggregation.transactions[i].id = aggregation.transactions[j].id => i = j


\* C20: under any interleaving of learn-rule, delete-rule, categorize and
\* categorize-batch requests, every rule suggestion a response carries is the
\* first matching Rule of the whole rule set the store held when the scan ran,
\* and its categoryId and categoryName are a pair that was taught together.
C20_ScansSeeWholeRules ==
    \A k \in Answered :
        SuggestionOf(k).source = "learned_rule" =>
            LET seen == res.trace[k].rules
                first == FirstMatch(seen, res.trace[k].txn)
            IN /\ first >= 1
               /\ SuggestionOf(k) = RuleSuggestion(seen[first])
               /\ [id |-> SuggestionOf(k).categoryId,
                   name |-> SuggestionOf(k).categoryName] \in Categories

\* a batch whose first item was scanned before a teach re-pointed the Rule and
\* whose second item was scanned after it: the same Rule answers with the old
\* pair and with the new pair
C20_Witness ==
    /\ res.route = "categorize-batch"
    /\ res.body.status = 200
    /\ Len(res.body.results) = 2
    /\ res.body.results[1].suggestion.source = "learned_rule"
    /\ res.body.results[2].suggestion.source = "learned_rule"
    /\ res.body.results[1].suggestion.ruleId = res.body.results[2].suggestion.ruleId
    /\ res.body.results[1].suggestion.categoryId = 1
    /\ res.body.results[2].suggestion.categoryId = 2


\* C21: after a teach of (pattern, patternType), the stored Rule of that pair
\* holds the lower-cased input pattern, for a new Rule and for an updated one.
C21_StoredPatternLowerCase ==
    [][ \A pattern \in Patterns, pt \in PatternTypes, c \in Categories, writeOk \in BOOLEAN :
            LearnRuleWith(pattern, pt, c, writeOk)
                => \A i \in RulesForPair(learnedRules', pattern, DefaultPatternType(pt)) :
                      learnedRules'[i].pattern = toLowerCase(pattern) ]_vars


\* the lower-case concatenation of description and counterparty name
ConcatenatedKey(txn) ==
    toLowerCase(txn.description \o (IF txn.vendor = AbsentField THEN <<>> ELSE txn.vendor))

\* the match of a Rule against that key, by patternType
KeyMatches(rule, txn) ==
    LET key == ConcatenatedKey(txn)
        pattern == toLowerCase(rule.pattern)
    IN CASE rule.patternType = "exact" -> key = pattern
         [] rule.patternType = "starts_with" -> startsWith(key, pattern)
         [] OTHER -> includes(key, pattern)

\* C22: the search key is the lower-case concatenation of description and
\* counterparty name and a Rule matches by its patternType (exact: equal,
\* starts_with: prefix, otherwise: substring); with one Rule of confidence 0.95
\* in the store a transaction is answered from the Rule exactly when the Rule
\* matches that key, in particular an exact Rule on the lower-cased description
\* of a transaction without counterparty name.
C22_SearchKeyMatch ==
    \A k \in Answered :
        LET e == res.trace[k]
        IN (Len(e.rules) = 1 /\ e.rules[1].confidence >= 95)
              => ( (ApprovedOf(k) /\ SuggestionOf(k).source = "learned_rule")
                     <=> KeyMatches(e.rules[1], e.txn) )


\* this step sends a request to the classifier
ClassifierCalled ==
    /\ req'.pc = "ai"
    /\ req.pc # "ai" \/ Len(req'.trace) # Len(req.trace)

\* C23: whenever the single or the batch resolver calls the classifier, the
\* category list it passes was fetched, and fetched no longer ago than the
\* staleness threshold.
C23_ClassifierSeesFreshList ==
    [][ ClassifierCalled
          => /\ categoryCache'.lastFetched # Undefined
             /\ now' - categoryCache'.lastFetched <= StaleAfter ]_vars


\* the transactions of a batch were handled in input order and no classifier
\* call but the last one handled is without its reply
InOrderOneAtATime(txns, trace, awaiting) ==
    /\ Len(trace) <= Len(txns)
    /\ \A k \in 1..Len(trace) :
          /\ trace[k].txn = txns[k]
          /\ (trace[k].classified = "called" /\ trace[k].reply = NoReply)
                => (awaiting /\ k = Len(trace))

\* C24: within one categorize-batch request the classifier calls are sequential
\* and in input order: at most one call is outstanding, and the call for item i
\* has its reply before item i+1 is scanned.
C24_BatchSequential ==
    /\ req.route = "categorize-batch"
          => InOrderOneAtATime(req.txns, req.trace, req.pc = "ai")
    /\ res.route = "categorize-batch"
          => InOrderOneAtATime(res.txns, res.trace, FALSE)

\* the second classifier call of a batch is outstanding and the first one has
\* its reply
C24_Witness ==
    /\ req.route = "categorize-batch"
    /\ req.pc = "ai"
    /\ Len(req.trace) = 2
    /\ req.trace[1].classified = "called"
    /\ req.trace[1].reply # NoReply
    /\ req.trace[2].reply = NoReply


\* the type the account lookup gives for the account of a journal line
LookedUpType(line) == AccountTypeOf(aggregation.accountRecords, line.AccountRef)

\* the kind and amount of the Transaction a journal line of non-zero amount is
\* to give, as a set: empty when the line gives none
JournalOutcome(line) ==
    LET t == LookedUpType(line)
        a == Abs(line.Amount)
    IN IF t \in {"Expense", "Cost of Goods Sold", "Other Expense"}
       THEN IF line.PostingType = "Debit"
            THEN { [type |-> "expense", amount |-> - a] }
            ELSE { [type |-> "expense", amount |-> a] }
       ELSE IF t \in {"Income", "Other Income"}
       THEN IF line.PostingType = "Credit"
            THEN { [type |-> "income", amount |-> a] }
            ELSE { [type |-> "income", amount |-> - a] }
       ELSE IF line.PostingType = "Debit"
            THEN { [type |-> "expense", amount |-> - a] }
            ELSE {}

\* the positions of the transactions that stem from line idx of journal entry r
EmittedForLine(r, idx) ==
    { j \in EmittedFor(r) : aggregation.transactions[j].id.idx = idx }

NamesPayroll(text) ==
    \E keyword \in {Payroll, Wage, Salary, Paychex} : includes(toLowerCase(text), keyword)

\* C26: a journal Transaction is tagged isPayroll and categorized "Payroll
\* Expenses" exactly when the account name or the memo of its record contains,
\* in any case, one of "payroll", "wage", "salary", "paychex".
C26_PayrollTag ==
    aggregation.pc = "done" =>
        \A k \in 1..Len(aggregation.allRecords) :
            LET r == aggregation.allRecords[k]
            IN r.kind = "JournalEntry" =>
                 \A j \in EmittedFor(r) :
                    LET t == aggregation.transactions[j]
                        line == r.Line[t.id.idx + 1]
                        acctName == AccountNameOf(aggregation.accountRecords, line.AccountRef)
                    IN /\ t.isPayroll <=> (NamesPayroll(acctName) \/ NamesPayroll(r.PrivateNote))
                       /\ t.isPayroll <=> t.category = PayrollExpenses


\* C27: under any interleaving of disconnect requests, each disconnect that
\* answers success removes from the registry exactly the connection whose id it
\* was given, and no other connection.
C27_DisconnectRemovesOnlyTarget ==
    [][ (plaidRes'.route = "disconnect" /\ plaidRes'.status = 200 /\ plaidReqs' # plaidReqs)
          => /\ plaidRes'.removed = {plaidRes'.target}
             /\ IdsOf(plaidAccounts') = IdsOf(plaidAccounts) \ {plaidRes'.target} ]_vars


\* how many upstream requests a handler sent for connection id
Contacts(visited, id) == Cardinality({ k \in 1..Len(visited) : visited[k] = id })

\* C28: a sync (or transactions/get) request that has answered contacted every
\* connection still in the registry exactly once, also when another connection
\* was disconnected while the request awaited an upstream response.
C28_EveryConnectionContactedOnce ==
    (plaidRes.route \in {"sync", "transactions"} /\ plaidRes.status = 200)
        => \A id \in IdsOf(plaidAccounts) : Contacts(plaidRes.visited, id) = 1


\* C29: every Rule in the store has a distinct id after any sequence of teach
\* calls, two teaches for different patterns within one clock millisecond
\* included (so that a delete by id removes at most one Rule).
C29_RuleIdsDistinct ==
    \A i, j \in 1..Len(learnedRules) :
        learnedRules[i].id = learnedRules[j].id => i = j


\* new is old with some Rules left out, the others in their old order
KeepsOrder(old, new) ==
    \E f \in [1..Len(new) -> 1..Len(old)] :
        /\ \A k \in 1..Len(new) : new[k] = old[f[k]]
        /\ \A k, l \in 1..Len(new) : k < l => f[k] < f[l]

\* the Rule that wins first-match-wins for txn before the step wins after it,
\* unless the step changed or removed that Rule
WinnerKept(txn) ==
    LET m == FirstMatch(learnedRules, txn)
    IN (m # 0 /\ \E k \in 1..Len(learnedRules') : learnedRules'[k] = learnedRules[m])
          => /\ FirstMatch(learnedRules', txn) # 0
             /\ learnedRules'[FirstMatch(learnedRules', txn)] = learnedRules[m]

\* C30: teach and delete never reorder the store: a teach on an existing pair
\* updates the Rule where it is, a teach on a new pair appends after all
\* existing Rules, a delete keeps the order of the remaining Rules; the winner
\* of first-match-wins among the Rules that were there is not changed by a
\* teach or delete that leaves that Rule alone.
C30_StoreOrderKept ==
    [][ /\ \A pattern \in Patterns, pt \in PatternTypes, c \in Categories, writeOk \in BOOLEAN :
              LearnRuleWith(pattern, pt, c, writeOk)
                  => LET old == RulesForPair(learnedRules, pattern, DefaultPatternType(pt))
                         n == Len(learnedRules)
                     IN IF old # {}
                        THEN /\ Len(learnedRules') = n
                             /\ \A i \in 1..n :
                                   IF i \in old
                                   THEN learnedRules'[i].id = learnedRules[i].id
                                   ELSE learnedRules'[i] = learnedRules[i]
                        ELSE /\ Len(learnedRules') = n + 1
                             /\ SubSeq(learnedRules', 1, n) = learnedRules
        /\ DeleteRule => KeepsOrder(learnedRules, learnedRules')
        /\ (LearnRule \/ DeleteRule) => \A txn \in Txns : WinnerKept(txn) ]_vars

\* a delete removed the Rule taught at time 0 and the Rule taught at time 1
\* moved up to the first position
C30_Witness ==
    /\ res.route = "delete-rule"
    /\ Len(learnedRules) = 1
    /\ learnedRules[1].createdAt = 1

====
